---------------------------- MODULE Spec2Model ----------------------------
(***************************************************************************)
(* Model of src/app.py: the POST /analyze handler of the audio analysis    *)
(* server, its note filter, midi_to_note_name and the average-pitch rule.  *)
(*                                                                         *)
(* Numbers.  Times, confidences and pitches are fixed-point values in      *)
(* hundredths (0.05 s is 5, confidence 0.6 is 60, pitch 60.4 is 6040).     *)
(* A number is a record [t |-> <python type>, v |-> <value>]: float() and  *)
(* int() change the type, int() also the value.  A python int has v in     *)
(* whole units.  Text (an exception message, a response detail) is a       *)
(* sequence of words; a file path is a sequence of path segments.          *)
(***************************************************************************)
EXTENDS Integers, Sequences, FiniteSets, TLC

VARIABLES
    pc,             \* request -> the statement of analyze() it is about to run
    upload,         \* request -> the uploaded body (file.file)
    tmp,            \* request -> tmp.name of its NamedTemporaryFile, or None
    temp_path,      \* request -> the local temp_path, or None
    disk,           \* the temp directory: path -> [owner, data, writes]
    audio,          \* request -> the in-memory AudioSegment after normalize
    model_output,   \* request -> the value predict() returned
    predict_in,     \* request -> what predict() read from temp_path
    note_events,    \* request -> model_output[2]
    detected_notes, \* request -> the filtered note list
    y,              \* request -> what librosa.load() read from temp_path
    metrics,        \* request -> the metrics dict
    vis_filename,   \* request -> "<uuid4 hex>.png", or None
    plots,          \* static/plots: path -> [writer, image]
    issued,         \* the uuid4 values handed out so far
    exc,            \* request -> the exception caught by "except Exception"
    response,       \* request -> the HTTP response, once the handler ended
    trace,          \* request -> the stages run so far, in order
    input,          \* argument of the pure function called on its own
    output          \* its result

hvars == <<pc, upload, tmp, temp_path, disk, audio, model_output, predict_in,
           note_events, detected_notes, y, metrics, vis_filename, plots,
           issued, exc, response, trace>>
vars == <<hvars, input, output>>

-----------------------------------------------------------------------------
(* Bounds of the model *)

\* concurrently served requests
NumRequests == 2
\* longest raw note-event sequence given to the note filter on its own
MaxEvents == 2
\* most frames (columns) of the piptrack matrix
MaxFrames == 2
\* MIDI numbers -MidiSpan .. MidiSpan + 127 are given to midi_to_note_name
MidiSpan == 30

-----------------------------------------------------------------------------
(* Program constants *)

\* confidence >= 0.6, in hundredths
ConfThreshold == 60
\* dur >= 0.05, in hundredths of a second
MinDuration == 5
\* set_frame_rate(22050), librosa.load(sr=22050)
SampleRate == 22050

None == "None"

-----------------------------------------------------------------------------
(* Python numbers *)

NpFloat(v) == [t |-> "numpy.float", v |-> v]
PyFloat(v) == [t |-> "float", v |-> v]
PyInt(v) == [t |-> "int", v |-> v]

\* float(x): the same value as a python float
ToFloat(x) == IF x.t = "int" THEN PyFloat(x.v * 100) ELSE PyFloat(x.v)

ToIntRounding(x) == IF x.t = "int" THEN x ELSE PyInt((x.v + 50) \div 100)

\* int(x): truncation toward zero (\div rounds toward minus infinity)
ToInt(x) ==
    IF x.t = "int" THEN x
    ELSE IF x.v >= 0 THEN PyInt(x.v \div 100)
    ELSE PyInt(-((-x.v) \div 100))

\* end - start on floats
Minus(a, b) == PyFloat(a.v - b.v)

-----------------------------------------------------------------------------
(* midi_to_note_name *)

notes == <<"C", "C#", "D", "D#", "E", "F", "F#", "G", "G#", "A", "A#", "B">>

NoteNameTruncating(midi_number) ==
    LET q == IF midi_number >= 0 THEN midi_number \div 12
             ELSE -((-midi_number) \div 12)
        r == midi_number - 12 * q
        octave == q - 1
        note == notes[(IF r < 0 THEN r + 12 ELSE r) + 1]
    IN  note \o ToString(octave)

\* python: // is floor division and % has the sign of the divisor, as \div
\* and % have here; notes[k] is notes[k + 1] of a 1-based sequence
midi_to_note_name(midi_number) ==
    LET octave == (midi_number \div 12) - 1
        note == notes[(midi_number % 12) + 1]
    IN  note \o ToString(octave)

-----------------------------------------------------------------------------
(* The note filter: step 4 of analyze() *)

\* what a block of code ends with: a value, or an exception with its text
Value(v) == [ok |-> TRUE, value |-> v]
Raise(type, text) == [ok |-> FALSE, type |-> type, text |-> text]

DetectedNote(start, end, midi, confidence) ==
    [start_time |-> ToFloat(start),
     end_time   |-> ToFloat(end),
     midi_note  |-> midi,
     note_name  |-> midi_to_note_name(midi.v),
     confidence |-> ToFloat(confidence)]

PassesStrict(confidence, dur) ==
    confidence.v > ConfThreshold /\ dur.v > MinDuration

\* confidence >= 0.6 and dur >= 0.05
Passes(confidence, dur) ==
    confidence.v >= ConfThreshold /\ dur.v >= MinDuration

AppendFirst(detected, note) == <<note>> \o detected

\* detected_notes.append(note)
ListAppend(detected, note) == Append(detected, note)

\* the for loop over note_events, from event i on; unpacking an event that
\* has not exactly five fields raises ValueError and ends the loop
RECURSIVE FilterFrom(_, _, _)
FilterFrom(events, i, detected) ==
    IF i > Len(events) THEN Value(detected)
    ELSE LET ev == events[i] IN
         IF Len(ev) < 5
         THEN Raise("ValueError", <<"not", "enough", "values", "to", "unpack">>)
         ELSE IF Len(ev) > 5
         THEN Raise("ValueError", <<"too", "many", "values", "to", "unpack">>)
         ELSE LET start == ev[1]
                  end == ev[2]
                  pitch == ev[3]
                  confidence == ev[4]
                  dur == Minus(end, start)
                  midi == ToInt(pitch)
              IN  IF Passes(confidence, dur)
                  THEN FilterFrom(events, i + 1,
                           ListAppend(detected,
                               DetectedNote(start, end, midi, confidence)))
                  ELSE FilterFrom(events, i + 1, detected)

\* detected_notes = []; for ... in note_events: ...
FilterNotes(events) == FilterFrom(events, 1, <<>>)

-----------------------------------------------------------------------------
(* The average pitch: pitches, magnitudes = librosa.piptrack(...) *)

NaN == [t |-> "float", nan |-> TRUE]
\* the float num / den
Ratio(num, den) == [t |-> "float", nan |-> FALSE, num |-> num, den |-> den]
\* the literal 0.0
Zero == Ratio(0, 1)

RECURSIVE Sum(_)
Sum(s) == IF s = <<>> THEN 0 ELSE Head(s) + Sum(Tail(s))

RECURSIVE Flatten(_)
Flatten(rows) == IF rows = <<>> THEN <<>> ELSE Head(rows) \o Flatten(Tail(rows))

IsPositive(x) == x > 0

\* pitches[pitches > 0]: the selected entries, in row-major order
MaskPositive(matrix) == SelectSeq(Flatten(matrix), IsPositive)

\* np.any(pitches > 0)
AnyPositive(matrix) == \E i \in 1..Len(Flatten(matrix)) : Flatten(matrix)[i] > 0

\* np.mean of a 1-d array: nan for an empty one
NpMean(a) == IF a = <<>> THEN NaN ELSE Ratio(Sum(a), Len(a))

AvePitchUnguarded(pitches) == NpMean(MaskPositive(pitches))

\* float(np.mean(pitches[pitches > 0])) if np.any(pitches > 0) else 0.0
AvePitch(pitches) ==
    IF AnyPositive(pitches) THEN NpMean(MaskPositive(pitches)) ELSE Zero

-----------------------------------------------------------------------------
(* The world around one request *)

Requests == 1..NumRequests

\* the names mkstemp can draw in the temp directory, suffix ".wav"
TempNames == {"/tmp/tmp" \o ToString(i) \o ".wav" : i \in 1..NumRequests}

\* the values uuid.uuid4().hex can take
UuidHex == {"uuid" \o ToString(i) : i \in 1..NumRequests}

\* an upload is a decodable audio container or it is not
Uploads == {"audio", "garbage"}

Empty == [form |-> "empty", from |-> 0, decodable |-> FALSE]
Partial(r) == [form |-> "partial", from |-> r, decodable |-> FALSE]
\* the bytes of request r's upload
Raw(r) == [form |-> "raw", from |-> r, decodable |-> upload[r] = "audio"]
\* set_channels(1).set_frame_rate(22050), effects.normalize
Normalized(data) ==
    [form |-> "normalized", from |-> data.from, decodable |-> TRUE,
     channels |-> 1, frame_rate |-> SampleRate]

NoRead == [read |-> FALSE]
\* what a reader of file n sees: its bytes, and how often it was written
Snapshot(n) == [read |-> TRUE, path |-> n, data |-> disk[n].data,
                writes |-> disk[n].writes, owner |-> disk[n].owner]

NoExc == [ok |-> TRUE, value |-> None]

\* the result of a function that was not called yet, and of one that was
NotRun == [run |-> FALSE]
Ran(v) == [run |-> TRUE, value |-> v]
NoResponse == [status |-> 0]

AnyTempName(d) == TempNames

\* NamedTemporaryFile(delete=False, suffix=".wav") creates its file with
\* O_EXCL: the name is one no file of the directory has
FreshTempNames(d) == TempNames \ DOMAIN d

\* uuid.uuid4(): a random 122-bit value, taken as one never handed out before
Uuid4(given) == UuidHex \ given

\* open(path, "wb+") and a write: the file is created if missing
Put(d, n, r, data) ==
    [x \in DOMAIN d \cup {n} |->
        IF x # n THEN d[x]
        ELSE IF n \in DOMAIN d
             THEN [owner |-> d[n].owner, data |-> data, writes |-> d[n].writes + 1]
             ELSE [owner |-> r, data |-> data, writes |-> 1]]

\* a write through the handle of NamedTemporaryFile
WriteOpen(d, n, data) ==
    IF n \in DOMAIN d
    THEN [d EXCEPT ![n] = [@ EXCEPT !.data = data, !.writes = @ + 1]]
    ELSE d

\* os.remove(path)
Remove(d, n) == [x \in DOMAIN d \ {n} |-> d[x]]

\* the raw events of the spec's example
ExampleEvents ==
    << <<NpFloat(0), NpFloat(20), NpFloat(6040), NpFloat(90), <<>> >>,
       <<NpFloat(10), NpFloat(12), NpFloat(6700), NpFloat(95), <<>> >> >>

\* an event with four fields
ShortEvent == <<NpFloat(0), NpFloat(20), NpFloat(6040), NpFloat(90)>>

\* note-event sequences predict() returns to a request
HandlerEvents ==
    { <<>>, ExampleEvents, <<ExampleEvents[2]>>, <<ExampleEvents[1], ShortEvent>> }

\* values predict() returns
ModelOutputs ==
    { [type |-> "tuple", items |-> <<"model_output", "midi_data", ne>>]
        : ne \in HandlerEvents }
    \cup
    { [type |-> "tuple", items |-> <<"model_output", "midi_data">>],
      [type |-> "dict", items |-> <<"model_output", "midi_data", ExampleEvents>>],
      [type |-> "list", items |-> <<"model_output", "midi_data", ExampleEvents, "extra">>],
      [type |-> "NoneType", items |-> <<>>] }

\* pitch matrices piptrack() returns to a request
HandlerPitches == { << <<0, 0>>, <<0, 0>> >>, << <<0, 440>>, <<220, 0>> >> }

\* What the collaborators of a request may do: the values predict() and
\* piptrack() return, the uploads that arrive, the library calls that may
\* raise, and the messages their exceptions may carry besides the call's
\* own (an exception's message may be empty).
LibraryCalls ==
    {"mkstemp", "copyfileobj", "normalize", "export", "predict", "load",
     "librosa", "savefig"}

World == [outputs |-> ModelOutputs, pitches |-> HandlerPitches,
          uploads |-> Uploads, failing |-> LibraryCalls, texts |-> { <<>> }]

\* the same with one value of each kind, and failures of the calls that
\* write files only, for requests served side by side
SmallWorld ==
    [outputs |-> { [type |-> "tuple", items |-> <<"model_output", "midi_data", ExampleEvents>>] },
     pitches |-> { << <<0, 440>>, <<220, 0>> >> },
     uploads |-> {"audio"},
     failing |-> {"copyfileobj", "export", "savefig"},
     texts |-> {}]

\* messages of the exceptions a library call raises at a stage
ErrTexts(E, stage) ==
    IF stage \in E.failing THEN { <<stage, "failed">> } \cup E.texts ELSE {}

-----------------------------------------------------------------------------
(* analyze(): one action per statement group, for request r *)

\* plots_dir = os.path.join("static", "plots")
plots_dir == "static/plots"

\* os.path.join(plots_dir, vis_filename)
VisPath(filename) == plots_dir \o "/" \o filename

\* f"/static/plots/{vis_filename}"
VisUrl(filename) == "/static/plots/" \o filename

\* app.mount("/static", StaticFiles(directory="static")): the file served
\* for a URL below /static
Serves(url, path) == url = "/" \o path

\* control moves on, and the stage is logged
Step(r, stage, next) ==
    /\ pc' = [pc EXCEPT ![r] = next]
    /\ trace' = [trace EXCEPT ![r] = Append(@, stage)]

\* an exception leaves the try block for "except Exception as exc"
Throw(r, stage, e) ==
    /\ exc' = [exc EXCEPT ![r] = e]
    /\ Step(r, stage, "except")

\* line 52: with NamedTemporaryFile(delete=False, suffix=".wav") as tmp
Open(r, E) ==
    /\ pc[r] = "open"
    /\ \/ \E n \in FreshTempNames(disk) :
             /\ disk' = Put(disk, n, r, Empty)
             /\ tmp' = [tmp EXCEPT ![r] = n]
             /\ Step(r, "open", "copy")
             /\ UNCHANGED exc
       \/ \E text \in ErrTexts(E, "mkstemp") :
             /\ Throw(r, "open", Raise("OSError", text))
             /\ UNCHANGED <<disk, tmp>>
    /\ UNCHANGED <<upload, temp_path, audio, model_output, predict_in,
                   note_events, detected_notes, y, metrics, vis_filename,
                   plots, issued, response, input, output>>

\* lines 53-54: shutil.copyfileobj(file.file, tmp); temp_path = tmp.name.
\* When the copy raises, the with block closes tmp and temp_path is not set.
Copy(r, E) ==
    /\ pc[r] = "copy"
    /\ \/ /\ disk' = WriteOpen(disk, tmp[r], Raw(r))
          /\ temp_path' = [temp_path EXCEPT ![r] = tmp[r]]
          /\ Step(r, "copy", "decode")
          /\ UNCHANGED exc
       \/ \E text \in ErrTexts(E, "copyfileobj") :
             /\ disk' = WriteOpen(disk, tmp[r], Partial(r))
             /\ Throw(r, "copy", Raise("OSError", text))
             /\ UNCHANGED temp_path
    /\ UNCHANGED <<upload, tmp, audio, model_output, predict_in,
                   note_events, detected_notes, y, metrics, vis_filename,
                   plots, issued, response, input, output>>

\* lines 57-59: AudioSegment.from_file(temp_path), set_channels(1),
\* set_frame_rate(22050), effects.normalize: all in memory
Decode(r, E) ==
    /\ pc[r] = "decode"
    /\ IF temp_path[r] \notin DOMAIN disk
       THEN /\ Throw(r, "decode", Raise("FileNotFoundError", <<"No", "such", "file">>))
            /\ UNCHANGED audio
       ELSE IF ~disk[temp_path[r]].data.decodable
       THEN /\ Throw(r, "decode", Raise("CouldntDecodeError", <<"Decoding", "failed">>))
            /\ UNCHANGED audio
       ELSE \/ /\ audio' = [audio EXCEPT ![r] = Normalized(disk[temp_path[r]].data)]
               /\ Step(r, "decode", "export")
               /\ UNCHANGED exc
            \/ \E text \in ErrTexts(E, "normalize") :
                  /\ Throw(r, "decode", Raise("Exception", text))
                  /\ UNCHANGED audio
    /\ UNCHANGED <<upload, tmp, temp_path, disk, model_output, predict_in,
                   note_events, detected_notes, y, metrics, vis_filename,
                   plots, issued, response, input, output>>

\* line 60: audio.export(temp_path, format="wav")
Export(r, E) ==
    /\ pc[r] = "export"
    /\ \/ /\ disk' = Put(disk, temp_path[r], r, audio[r])
          /\ Step(r, "export", "predict")
          /\ UNCHANGED exc
       \/ \E text \in ErrTexts(E, "export") :
             /\ disk' = Put(disk, temp_path[r], r, Partial(r))
             /\ Throw(r, "export", Raise("OSError", text))
    /\ UNCHANGED <<upload, tmp, temp_path, audio, model_output, predict_in,
                   note_events, detected_notes, y, metrics, vis_filename,
                   plots, issued, response, input, output>>

\* line 63: model_output = predict(temp_path)
Predict(r, E) ==
    /\ pc[r] = "predict"
    /\ IF temp_path[r] \notin DOMAIN disk
       THEN /\ Throw(r, "predict", Raise("FileNotFoundError", <<"No", "such", "file">>))
            /\ UNCHANGED <<model_output, predict_in>>
       ELSE \/ \E mo \in E.outputs :
                  /\ model_output' = [model_output EXCEPT ![r] = mo]
                  /\ predict_in' = [predict_in EXCEPT ![r] = Snapshot(temp_path[r])]
                  /\ Step(r, "predict", "check")
                  /\ UNCHANGED exc
            \/ \E text \in ErrTexts(E, "predict") :
                  /\ predict_in' = [predict_in EXCEPT ![r] = Snapshot(temp_path[r])]
                  /\ Throw(r, "predict", Raise("Exception", text))
                  /\ UNCHANGED model_output
    /\ UNCHANGED <<upload, tmp, temp_path, disk, audio,
                   note_events, detected_notes, y, metrics, vis_filename,
                   plots, issued, response, input, output>>

ValidOutputAnyType(mo) == Len(mo.items) >= 3

\* isinstance(model_output, (list, tuple)) and len(model_output) >= 3
ValidOutput(mo) == mo.type \in {"list", "tuple"} /\ Len(mo.items) >= 3

\* lines 64-66: the shape check, then note_events = model_output[2]
Check(r) ==
    /\ pc[r] = "check"
    /\ IF ValidOutput(model_output[r])
       THEN /\ note_events' = [note_events EXCEPT ![r] = model_output[r].items[3]]
            /\ Step(r, "check", "filter")
            /\ UNCHANGED exc
       ELSE /\ Throw(r, "check",
                  Raise("ValueError", <<"Unexpected", "prediction", "output", "format">>))
            /\ UNCHANGED note_events
    /\ UNCHANGED <<upload, tmp, temp_path, disk, audio, model_output, predict_in,
                   detected_notes, y, metrics, vis_filename,
                   plots, issued, response, input, output>>

\* lines 69-80: the note filter
Filter(r) ==
    /\ pc[r] = "filter"
    /\ LET res == FilterNotes(note_events[r]) IN
       IF res.ok
       THEN /\ detected_notes' = [detected_notes EXCEPT ![r] = res.value]
            /\ Step(r, "filter", "load")
            /\ UNCHANGED exc
       ELSE /\ Throw(r, "filter", res)
            /\ UNCHANGED detected_notes
    /\ UNCHANGED <<upload, tmp, temp_path, disk, audio, model_output, predict_in,
                   note_events, y, metrics, vis_filename,
                   plots, issued, response, input, output>>

LoadUpload(r) == [read |-> TRUE, path |-> "upload", data |-> Raw(r), writes |-> 0, owner |-> r]

\* librosa.load(temp_path, sr=22050) reads the temp file
LoadSource(r) == Snapshot(temp_path[r])

\* line 83: y, sr = librosa.load(temp_path, sr=22050)
Load(r, E) ==
    /\ pc[r] = "load"
    /\ IF temp_path[r] \notin DOMAIN disk
       THEN /\ Throw(r, "load", Raise("FileNotFoundError", <<"No", "such", "file">>))
            /\ UNCHANGED y
       ELSE \/ /\ y' = [y EXCEPT ![r] = LoadSource(r)]
               /\ Step(r, "load", "features")
               /\ UNCHANGED exc
            \/ \E text \in ErrTexts(E, "load") :
                  /\ Throw(r, "load", Raise("Exception", text))
                  /\ UNCHANGED y
    /\ UNCHANGED <<upload, tmp, temp_path, disk, audio, model_output, predict_in,
                   note_events, detected_notes, metrics, vis_filename,
                   plots, issued, response, input, output>>

\* a librosa statistic of the loaded signal
Feature(name, signal) == <<name, signal.data.form, signal.data.from>>

\* lines 95-106: the metrics dict
Metrics(signal, pitches, detected) ==
    [tempo              |-> Feature("beat_track", signal),
     duration           |-> Feature("len(y) / sr", signal),
     sample_rate        |-> SampleRate,
     zero_crossings     |-> Feature("zero_crossings", signal),
     spectral_centroid  |-> Feature("spectral_centroid", signal),
     spectral_bandwidth |-> Feature("spectral_bandwidth", signal),
     spectral_rolloff   |-> Feature("spectral_rolloff", signal),
     onset_strength     |-> Feature("onset_strength", signal),
     pitch              |-> AvePitch(pitches),
     notes              |-> detected]

NoMetrics == [notes |-> <<>>]

\* lines 84-106: the librosa features and the metrics dict
Features(r, E) ==
    /\ pc[r] = "features"
    /\ \/ \E pitches \in E.pitches :
             /\ metrics' = [metrics EXCEPT ![r] = Metrics(y[r], pitches, detected_notes[r])]
             /\ Step(r, "features", "plot")
             /\ UNCHANGED exc
       \/ \E text \in ErrTexts(E, "librosa") :
             /\ Throw(r, "features", Raise("Exception", text))
             /\ UNCHANGED metrics
    /\ UNCHANGED <<upload, tmp, temp_path, disk, audio, model_output, predict_in,
                   note_events, detected_notes, y, vis_filename,
                   plots, issued, response, input, output>>

\* lines 109-116: vis_filename = f"{uuid.uuid4().hex}.png", then the figure
\* of y is drawn and saved to vis_path
Plot(r, E) ==
    /\ pc[r] = "plot"
    /\ \E u \in Uuid4(issued) :
          /\ issued' = issued \cup {u}
          /\ vis_filename' = [vis_filename EXCEPT ![r] = u \o ".png"]
          /\ \/ /\ plots' = Put(plots, VisPath(u \o ".png"), r, y[r])
                /\ Step(r, "plot", "return")
                /\ UNCHANGED exc
             \/ \E text \in ErrTexts(E, "savefig") :
                   /\ Throw(r, "plot", Raise("Exception", text))
                   /\ UNCHANGED plots
    /\ UNCHANGED <<upload, tmp, temp_path, disk, audio, model_output, predict_in,
                   note_events, detected_notes, y, metrics,
                   response, input, output>>

\* lines 121-126: the value returned
Result(r) ==
    [status |-> 200,
     body |-> [results |-> [results |-> metrics[r]],
               visualization |-> VisUrl(vis_filename[r])]]

\* line 121: return {...}; the finally block runs before the response leaves
Return(r) ==
    /\ pc[r] = "return"
    /\ response' = [response EXCEPT ![r] = Result(r)]
    /\ Step(r, "return", "finally")
    /\ UNCHANGED <<upload, tmp, temp_path, disk, audio, model_output, predict_in,
                   note_events, detected_notes, y, metrics, vis_filename,
                   plots, issued, exc, input, output>>

GenericError(e) == [status |-> 500, detail |-> <<"Internal", "Server", "Error">>]

\* line 131: HTTPException(status_code=500, detail=f"Analysis failed: {exc}")
HTTPException(e) == [status |-> 500, detail |-> <<"Analysis", "failed:">> \o e.text]

\* lines 128-131: except Exception as exc
Except(r) ==
    /\ pc[r] = "except"
    /\ response' = [response EXCEPT ![r] = HTTPException(exc[r])]
    /\ Step(r, "except", "finally")
    /\ UNCHANGED <<upload, tmp, temp_path, disk, audio, model_output, predict_in,
                   note_events, detected_notes, y, metrics, vis_filename,
                   plots, issued, exc, input, output>>

\* lines 135-136: if temp_path and os.path.exists(temp_path): os.remove(temp_path)
Cleanup(r) ==
    IF temp_path[r] # None /\ temp_path[r] \in DOMAIN disk
    THEN Remove(disk, temp_path[r])
    ELSE disk

\* lines 133-136: finally
Finally(r) ==
    /\ pc[r] = "finally"
    /\ disk' = Cleanup(r)
    /\ Step(r, "finally", "done")
    /\ UNCHANGED <<upload, tmp, temp_path, audio, model_output, predict_in,
                   note_events, detected_notes, y, metrics, vis_filename,
                   plots, issued, exc, response, input, output>>

\* line 49: temp_path = None, for every request that arrives; a request
\* that does not arrive is "absent"
InitWith(arriving, E) ==
    /\ pc = [r \in Requests |-> IF r \in arriving THEN "open" ELSE "absent"]
    /\ upload \in {u \in [Requests -> E.uploads] :
                      \A r \in Requests \ arriving : u[r] = "audio"}
    /\ tmp = [r \in Requests |-> None]
    /\ temp_path = [r \in Requests |-> None]
    /\ disk = <<>>
    /\ audio = [r \in Requests |-> Empty]
    /\ model_output = [r \in Requests |-> [type |-> "NoneType", items |-> <<>>]]
    /\ predict_in = [r \in Requests |-> NoRead]
    /\ note_events = [r \in Requests |-> <<>>]
    /\ detected_notes = [r \in Requests |-> <<>>]
    /\ y = [r \in Requests |-> NoRead]
    /\ metrics = [r \in Requests |-> NoMetrics]
    /\ vis_filename = [r \in Requests |-> None]
    /\ plots = <<>>
    /\ issued = {}
    /\ exc = [r \in Requests |-> NoExc]
    /\ response = [r \in Requests |-> NoResponse]
    /\ trace = [r \in Requests |-> <<>>]

NextWith(E) ==
    \E r \in Requests :
        \/ Open(r, E) \/ Copy(r, E) \/ Decode(r, E) \/ Export(r, E)
        \/ Predict(r, E) \/ Check(r) \/ Filter(r) \/ Load(r, E)
        \/ Features(r, E) \/ Plot(r, E)
        \/ Return(r) \/ Except(r) \/ Finally(r)

\* one request served alone, in the full world
Init == InitWith({1}, World) /\ input = None /\ output = NotRun
Next == NextWith(World)
Spec == Init /\ [][Next]_vars

\* all requests served side by side, their steps interleaved
ConcInit == InitWith(Requests, SmallWorld) /\ input = None /\ output = NotRun
ConcNext == NextWith(SmallWorld)
ConcSpec == ConcInit /\ [][ConcNext]_vars

-----------------------------------------------------------------------------
(* The pure functions on their own: Init draws the argument, the action calls *)

MidiNumbers == (0 - MidiSpan)..(127 + MidiSpan)

CallNoteName ==
    /\ output = NotRun
    /\ output' = Ran(midi_to_note_name(input))
    /\ UNCHANGED <<hvars, input>>

NoteInit == InitWith({}, World) /\ input \in MidiNumbers /\ output = NotRun
NoteSpec == NoteInit /\ [][CallNoteName]_vars

\* raw events (start, end, pitch, confidence, _): durations -0.05, 0, 0.02,
\* 0.05 and more, confidences below, at and above 0.6
Events ==
    { <<NpFloat(s), NpFloat(e), NpFloat(p), NpFloat(c), <<>> >> :
        s \in {0, 10}, e \in {5, 10, 12, 20}, p \in {6040, 6960}, c \in {59, 60, 90} }
    \cup { ExampleEvents[2], ShortEvent }

RECURSIVE SeqsUpTo(_, _)
SeqsUpTo(S, n) ==
    IF n = 0 THEN { <<>> }
    ELSE LET shorter == SeqsUpTo(S, n - 1)
         IN  shorter \cup { Append(q, x) : q \in shorter, x \in S }

CallFilter ==
    /\ output = NotRun
    /\ output' = Ran(FilterNotes(input))
    /\ UNCHANGED <<hvars, input>>

FilterInit ==
    InitWith({}, World) /\ input \in SeqsUpTo(Events, MaxEvents) /\ output = NotRun
FilterSpec == FilterInit /\ [][CallFilter]_vars

\* piptrack matrices: two frequency bins by up to MaxFrames frames, an entry
\* is 0 or a frequency
PitchMatrices ==
    UNION { [1..2 -> [1..f -> {0, 220, 440}]] : f \in 0..MaxFrames }

CallAvePitch ==
    /\ output = NotRun
    /\ output' = Ran(AvePitch(input))
    /\ UNCHANGED <<hvars, input>>

PitchInit == InitWith({}, World) /\ input \in PitchMatrices /\ output = NotRun
PitchSpec == PitchInit /\ [][CallAvePitch]_vars

-----------------------------------------------------------------------------
(* Claims about the note filter, under FilterSpec *)

\* every event of the argument has the five fields (start, end, pitch, confidence, _)
WellFormed(events) == \A i \in 1..Len(events) : Len(events[i]) = 5

\* confidence >= 0.6 and end - start >= 0.05, in hundredths
PassesBounds(ev) == ev[4].v >= 60 /\ ev[2].v - ev[1].v >= 5

\* the note carries the times and the confidence of the event
NoteOf(note, ev) ==
    /\ note.start_time.v = ev[1].v
    /\ note.end_time.v = ev[2].v
    /\ note.confidence.v = ev[4].v

FilterRan == output.run /\ WellFormed(input)
FilterOut == output.value.value

\* C1: the output holds a note for a raw event if and only if the event has
\* confidence >= 0.6 and end - start >= 0.05, both bounds inclusive: every
\* passing event has its note, every note belongs to a passing event, and
\* there are as many notes as passing events.
C1_InclusionPredicate ==
    FilterRan =>
        /\ output.value.ok
        /\ \A i \in 1..Len(input) :
              PassesBounds(input[i]) =>
                  \E j \in 1..Len(FilterOut) : NoteOf(FilterOut[j], input[i])
        /\ \A j \in 1..Len(FilterOut) :
              \E i \in 1..Len(input) :
                  PassesBounds(input[i]) /\ NoteOf(FilterOut[j], input[i])
        /\ Len(FilterOut) = Cardinality({i \in 1..Len(input) : PassesBounds(input[i])})

\* an event with confidence exactly 0.6 and duration exactly 0.05 is kept,
\* one of duration zero beside it is dropped
C1_Witness ==
    /\ FilterRan
    /\ Len(input) = 2
    /\ input[1][4].v = 60 /\ input[1][2].v - input[1][1].v = 5
    /\ input[2][4].v = 90 /\ input[2][2].v - input[2][1].v = 0
    /\ Len(FilterOut) = 1
    /\ NoteOf(FilterOut[1], input[1])

\* C2: the output is a subsequence of the input: a strictly increasing map
\* sends the notes onto exactly the passing events, so |output| <= |input|
\* with equality iff every event passes; an empty input gives an empty
\* output and no error.
C2_OrderPreservingSubsequence ==
    FilterRan =>
        /\ output.value.ok
        /\ \E f \in [1..Len(FilterOut) -> 1..Len(input)] :
              /\ \A j, k \in 1..Len(FilterOut) : j < k => f[j] < f[k]
              /\ \A j \in 1..Len(FilterOut) :
                    /\ NoteOf(FilterOut[j], input[f[j]])
                    /\ FilterOut[j].midi_note.v = input[f[j]][3].v \div 100
              /\ {f[j] : j \in 1..Len(FilterOut)}
                    = {i \in 1..Len(input) : PassesBounds(input[i])}
        /\ Len(FilterOut) <= Len(input)
        /\ Len(FilterOut) = Len(input)
              <=> \A i \in 1..Len(input) : PassesBounds(input[i])
        /\ input = <<>> => output.value = Value(<<>>)

\* two different passing events, both in the output
C2_Witness ==
    /\ FilterRan
    /\ Len(input) = 2
    /\ input[1] # input[2]
    /\ input[1][1].v > input[2][1].v
    /\ Len(FilterOut) = 2

PassingEvents(events) == SelectSeq(events, PassesBounds)

\* C9: each note is derived from its own event alone: start_time, end_time
\* and confidence are the event's, as floats, midi_note is the integer part
\* of the (non-negative) pitch and note_name is midi_to_note_name(midi_note);
\* the events of the example give the one note C4 of the example.
C9_NoteFromOwnEvent ==
    FilterRan =>
        /\ output.value.ok
        /\ Len(FilterOut) = Len(PassingEvents(input))
        /\ \A j \in 1..Len(FilterOut) :
              LET ev == PassingEvents(input)[j]
                  note == FilterOut[j]
              IN  /\ note.start_time = PyFloat(ev[1].v)
                  /\ note.end_time = PyFloat(ev[2].v)
                  /\ note.confidence = PyFloat(ev[4].v)
                  /\ note.midi_note.t = "int"
                  /\ 100 * note.midi_note.v <= ev[3].v
                  /\ ev[3].v < 100 * note.midi_note.v + 100
                  /\ note.note_name = midi_to_note_name(note.midi_note.v)
        /\ input = ExampleEvents =>
              FilterOut = << [start_time |-> PyFloat(0), end_time |-> PyFloat(20),
                              midi_note |-> PyInt(60), note_name |-> "C4",
                              confidence |-> PyFloat(90)] >>

\* the two raw events of the example, filtered to the one note
C9_Witness ==
    /\ output.run
    /\ input = ExampleEvents
    /\ Len(FilterOut) = 1

-----------------------------------------------------------------------------
(* Claim about midi_to_note_name, under NoteSpec *)

PitchClassCycle == <<"C", "C#", "D", "D#", "E", "F", "F#", "G", "G#", "A", "A#", "B">>

\* C3: midi_to_note_name(m) is defined for every integer m, negative ones
\* included: with m = 12 * (o + 1) + k and 0 <= k < 12, it is the k-th name
\* of the cycle C .. B followed by the octave o; 60 is C4, 69 is A4, 21 is A0.
C3_NoteNameTotal ==
    output.run =>
        /\ \E k \in 0..11, o \in (0 - MidiSpan - 2)..(MidiSpan + 12) :
              /\ input = 12 * (o + 1) + k
              /\ output.value = PitchClassCycle[k + 1] \o ToString(o)
        /\ input = 60 => output.value = "C4"
        /\ input = 69 => output.value = "A4"
        /\ input = 21 => output.value = "A0"

\* a negative number: -1 is the B below octave -1
C3_Witness == output.run /\ input = -1 /\ output.value = "B-2"

-----------------------------------------------------------------------------
(* Claim about the average pitch, under PitchSpec *)

PositiveCells(matrix) ==
    UNION { { <<b, f>> : f \in {g \in 1..Len(matrix[b]) : matrix[b][g] > 0} }
              : b \in 1..Len(matrix) }

RECURSIVE CellSum(_, _)
CellSum(matrix, cells) ==
    IF cells = {} THEN 0
    ELSE LET c == CHOOSE x \in cells : TRUE
         IN  matrix[c[1]][c[2]] + CellSum(matrix, cells \ {c})

\* C10: the average pitch is the mean of the strictly positive entries of
\* the matrix (their sum over their number); with no such entry it is 0.0;
\* it is never nan and the computation does not fail.
C10_AveragePitch ==
    output.run =>
        LET cells == PositiveCells(input) IN
        /\ output.value.t = "float"
        /\ ~output.value.nan
        /\ cells = {} => output.value.num = 0 /\ output.value.den = 1
        /\ cells # {} =>
              /\ output.value.den = Cardinality(cells)
              /\ output.value.num = CellSum(input, cells)

\* an all-zero matrix with entries gives 0.0
C10_Witness ==
    /\ output.run
    /\ Len(input[1]) > 0
    /\ PositiveCells(input) = {}
    /\ output.value = [t |-> "float", nan |-> FALSE, num |-> 0, den |-> 1]

-----------------------------------------------------------------------------
(* Claims about one request, under Spec *)

\* the stage was run by request r
InTrace(r, stage) == \E i \in 1..Len(trace[r]) : trace[r][i] = stage

\* stage a was run by r, and before any run of stage b
Before(r, a, b) ==
    \E i \in 1..Len(trace[r]) :
        trace[r][i] = a /\ \A j \in 1..i : trace[r][j] # b

\* the words of sub occur in text, in a row
Contains(text, sub) ==
    \E i \in 1..(Len(text) - Len(sub) + 1) : SubSeq(text, i, i + Len(sub) - 1) = sub

Ended(r) == pc[r] = "done"

\* C4: once the handler has returned or raised, no temporary file created
\* by that request is left on disk.
C4_NoTempFileLeft ==
    \A r \in Requests :
        Ended(r) => \A n \in DOMAIN disk : disk[n].owner # r

\* C5: when a stage raised, the request ends as a 500 response whose detail
\* is not empty and contains the text of the error, never as a 200
\* response; and no stage runs twice in a request.
C5_FailureIs500 ==
    \A r \in Requests :
        /\ (pc[r] \in {"finally", "done"} /\ ~exc[r].ok) =>
              /\ response[r].status = 500
              /\ response[r].detail # <<>>
              /\ Contains(response[r].detail, exc[r].text)
        /\ response[r].status = 200 => exc[r].ok
        /\ \A i, j \in 1..Len(trace[r]) : i # j => trace[r][i] # trace[r][j]

\* the note filter raised on an event with four fields, and the request
\* ended as a 500 response
C5_Witness ==
    /\ Ended(1)
    /\ ~exc[1].ok
    /\ exc[1].text = <<"not", "enough", "values", "to", "unpack">>
    /\ trace[1][Len(trace[1]) - 2] = "filter"
    /\ response[1].status = 500

ListOrTupleOfThree(mo) == mo.type \in {"list", "tuple"} /\ Len(mo.items) >= 3

\* C6: the model output is validated before any note event is read. If it
\* is not a list or tuple of at least three elements, a ValueError is raised,
\* no note filtering, feature extraction or plot generation runs and the
\* request ends as a 500 response; if it is, the note events are its third
\* element.
C6_OutputValidated ==
    \A r \in Requests :
        /\ InTrace(r, "check") =>
              IF ListOrTupleOfThree(model_output[r])
              THEN /\ note_events[r] = model_output[r].items[3]
                   /\ \A i \in 2..Len(trace[r]) :
                         trace[r][i] = "except" => trace[r][i - 1] # "check"
              ELSE /\ ~exc[r].ok
                   /\ exc[r].type = "ValueError"
                   /\ note_events[r] = <<>>
                   /\ \A st \in {"filter", "load", "features", "plot", "return"} :
                         ~InTrace(r, st)
                   /\ Ended(r) => response[r].status = 500
        /\ \A st \in {"filter", "load", "features", "plot"} :
              InTrace(r, st) => Before(r, "check", st)

\* predict returned a dict of three items: rejected, and the request ended
\* as a 500 response
C6_Witness ==
    /\ Ended(1)
    /\ model_output[1].type = "dict"
    /\ Len(model_output[1].items) = 3
    /\ response[1].status = 500

-----------------------------------------------------------------------------
(* Claims about requests served side by side, under ConcSpec *)

Active(r) == pc[r] \notin {"absent", "done"}

\* C7: within a request, predict() and librosa.load() read the temp file
\* after the normalized audio was exported to it; both see the same
\* normalized content of that request's upload, with no write to the file
\* between the two reads, and neither reads the upload as it arrived.
C7_SingleNormalizedSource ==
    \A r \in Requests :
        /\ predict_in[r].read =>
              /\ Before(r, "export", "predict")
              /\ predict_in[r].path = temp_path[r]
              /\ predict_in[r].data.form = "normalized"
              /\ predict_in[r].data.from = r
              /\ predict_in[r].data.frame_rate = 22050
              /\ predict_in[r].data.channels = 1
        /\ y[r].read =>
              /\ Before(r, "export", "load")
              /\ Before(r, "predict", "load")
              /\ y[r].path = temp_path[r]
              /\ y[r].data = predict_in[r].data
              /\ y[r].writes = predict_in[r].writes

\* both requests have loaded their signal while the other one was running
C7_Witness ==
    /\ y[1].read /\ y[2].read
    /\ Active(1) /\ Active(2)
    /\ y[1].data.from = 1 /\ y[2].data.from = 2

=============================================================================
